---- MODULE Spec2Model ----
(***************************************************************************)
(* Model of src/wrapper/mupdf.c: six functions mp_<name>, all generated by *)
(* the WRAP macro.  Each one opens an fz_try region on the caller's        *)
(* fz_context, evaluates one MuPDF call inside it, and turns an exception  *)
(* raised by that call into a failure value returned the ordinary way.     *)
(*                                                                         *)
(* MuPDF itself is the environment: each library call either returns a     *)
(* value or raises, and the model chooses among those outcomes.            *)
(***************************************************************************)
EXTENDS Integers, Sequences, FiniteSets, TLC

\* ---------------------------------------------------------------- bounds
MaxHandle == 1          \* handles are 0 (NULL) .. MaxHandle
MaxAux == 1             \* second argument (stream / pageno / options) 0 .. MaxAux
MaxPages == 1           \* page counts 0 .. MaxPages
MaxCallerDepth == 1     \* fz_try regions the caller already has open

\* -------------------------------------------------------------- contexts
\* fz_context *ctx: the caller owns the contexts; two are enough to run
\* two wrapper calls side by side.
Contexts == {1, 2}

\* The sequential specification drives one context only.
MainContexts == {1}

NULL == 0

\* ------------------------------------------------------- the six wrappers
Names ==
    {"open_document", "open_document_with_stream", "load_page",
     "load_outline", "count_pages", "new_stext_page_from_page"}

\* ret_type of each WRAP instantiation: int for count_pages, a pointer for
\* the rest.
ret_type(n) == IF n = "count_pages" THEN "int" ELSE "pointer"

\* Values a variable of ret_type can hold (a two-value window of them):
\* this is what the uninitialised local `ret` may contain.
TypeValues(n) ==
    IF ret_type(n) = "int" THEN {-1, 1} ELSE {NULL, 1}

failure_valZeroCount(n) == NULL

\* failure_val of each WRAP instantiation.
failure_val(n) == IF n = "count_pages" THEN -1 ELSE NULL

\* The parameter lists after ctx (the macro's __VA_ARGS__).
ArgTuples(n) ==
    IF n \in {"open_document", "load_outline", "count_pages"}
    THEN {<<a>> : a \in NULL .. MaxHandle}
    ELSE {<<a, b>> : a \in NULL .. MaxHandle, b \in 0 .. MaxAux}

\* One argument tuple per wrapper, for callers whose arguments play no part:
\* the wrapper never looks at them.
SomeArgs(n) == {t \in ArgTuples(n) : \A i \in 1 .. Len(t) : t[i] = 1}

callShifted(n, ctx, argv) ==
    [fn |-> "fz_" \o n,
     argv |-> <<ctx>> \o [i \in 1 .. Len(argv) |->
                            IF i = Len(argv) THEN argv[i] + 1 ELSE argv[i]]]

\* The `call` expression of each WRAP instantiation: fz_<name> applied to
\* ctx followed by the wrapper's own parameters, in order.
call(n, ctx, argv) ==
    CASE n = "open_document" ->
           [fn |-> "fz_open_document", argv |-> <<ctx, argv[1]>>]
      [] n = "open_document_with_stream" ->
           [fn |-> "fz_open_document_with_stream",
            argv |-> <<ctx, argv[1], argv[2]>>]
      [] n = "load_page" ->
           [fn |-> "fz_load_page", argv |-> <<ctx, argv[1], argv[2]>>]
      [] n = "load_outline" ->
           [fn |-> "fz_load_outline", argv |-> <<ctx, argv[1]>>]
      [] n = "count_pages" ->
           [fn |-> "fz_count_pages", argv |-> <<ctx, argv[1]>>]
      [] n = "new_stext_page_from_page" ->
           [fn |-> "fz_new_stext_page_from_page",
            argv |-> <<ctx, argv[1], argv[2]>>]

\* ------------------------------------------------------------ the library
\* Values a MuPDF call can return when it completes normally.  MuPDF is not
\* part of this file, so these follow its interface: a live handle, a page
\* count >= 0, and for fz_load_outline also NULL (a document without an
\* outline).  Which arguments make a call raise is MuPDF's business too:
\* every call may return or raise, whatever its arguments.
LibReturns(n) ==
    CASE n = "count_pages" -> 0 .. MaxPages
      [] n = "load_outline" -> NULL .. MaxHandle
      [] OTHER -> 1 .. MaxHandle

NoOutcome == [kind |-> "none", val |-> 0]
Raised == [kind |-> "raise", val |-> 0]
Returned(v) == [kind |-> "return", val |-> v]

NoCall == [fn |-> "none", argv |-> <<>>]
NoPrev == [name |-> "none", args |-> <<>>, outcome |-> NoOutcome, ret |-> 0]

\* ------------------------------------------------- the fz_try / fz_catch region
PushTryNone(stack) == stack

\* fz_try (ctx): push a frame for this region on ctx's exception stack.
PushTry(stack) == Append(stack, "mp")

PopTryLeak(stack) == stack

\* fz_catch (ctx): the region's frame is popped when the catch condition
\* is evaluated, whether or not an exception was caught.
PopTry(stack) == SubSeq(stack, 1, Len(stack) - 1)

Top(stack) == IF Len(stack) = 0 THEN "none" ELSE stack[Len(stack)]

TryAssignKeep(partial, v) == partial

\* { ret = call; }
TryAssign(partial, v) == v

CatchAssignKeep(n, partial) == partial

\* { ret = failure_val; }
CatchAssign(n, partial) == failure_val(n)

VARIABLES
    pc,            \* per context: "idle", "try", "catch", "done", "escaped"
    name,          \* the wrapper being run
    args,          \* its arguments after ctx
    ret,           \* the local variable ret
    caught,        \* the region's frame has seen an exception
    errStack,      \* ctx's stack of open fz_try regions, innermost last
    outcome,       \* what the library call did
    libCall,       \* the library call as it was made
    ncalls,        \* library calls made by the current wrapper call
    inRegion,      \* the library call was made with the region open
    partial,       \* what ret held before anything was assigned
    depth0,        \* Len(errStack) when the wrapper was entered
    prev,          \* the previous completed wrapper call on the context
    failedBefore   \* some earlier wrapper call on the context failed

vars == <<pc, name, args, ret, caught, errStack, outcome, libCall, ncalls,
          inRegion, partial, depth0, prev, failedBefore>>

DoCatchAlways(c) == TRUE

DoCatchAny(c) == \E d \in Contexts : caught[d]

\* fz_catch (ctx): the catch block runs iff ctx's innermost region saw an
\* exception.
DoCatch(c) == caught[c]

CallerStacks ==
    {[i \in 1 .. k |-> "caller"] : k \in 0 .. MaxCallerDepth}

InitAll ==
    /\ pc = [c \in Contexts |-> "idle"]
    /\ name = [c \in Contexts |-> "none"]
    /\ args = [c \in Contexts |-> <<>>]
    /\ ret = [c \in Contexts |-> 0]
    /\ caught = [c \in Contexts |-> FALSE]
    /\ errStack \in [Contexts -> CallerStacks]
    /\ outcome = [c \in Contexts |-> NoOutcome]
    /\ libCall = [c \in Contexts |-> NoCall]
    /\ ncalls = [c \in Contexts |-> 0]
    /\ inRegion = [c \in Contexts |-> FALSE]
    /\ partial = [c \in Contexts |-> 0]
    /\ depth0 = [c \in Contexts |-> 0]
    /\ prev = [c \in Contexts |-> NoPrev]
    /\ failedBefore = [c \in Contexts |-> FALSE]

\* The sequential caller: the contexts it does not use have no open region.
Init ==
    /\ InitAll
    /\ \A c \in Contexts \ MainContexts : errStack[c] = <<>>

\* The caller invokes mp_<n>(ctx, argv): `ret_type ret;` is uninitialised
\* and fz_try (ctx) opens the region.
Enter(c, n, argv, g) ==
    /\ pc[c] \in {"idle", "done"}
    /\ pc' = [pc EXCEPT ![c] = "try"]
    /\ name' = [name EXCEPT ![c] = n]
    /\ args' = [args EXCEPT ![c] = argv]
    /\ ret' = [ret EXCEPT ![c] = g]
    /\ caught' = [caught EXCEPT ![c] = FALSE]
    /\ depth0' = [depth0 EXCEPT ![c] = Len(errStack[c])]
    /\ errStack' = [errStack EXCEPT ![c] = PushTry(@)]
    /\ outcome' = [outcome EXCEPT ![c] = NoOutcome]
    /\ libCall' = [libCall EXCEPT ![c] = NoCall]
    /\ ncalls' = [ncalls EXCEPT ![c] = 0]
    /\ inRegion' = [inRegion EXCEPT ![c] = FALSE]

\* A wrapper call made by a caller whose previous call is remembered.
mp_call(c) ==
    \E n \in Names : \E argv \in ArgTuples(n) : \E g \in TypeValues(n) :
        /\ Enter(c, n, argv, g)
        /\ prev' = [prev EXCEPT ![c] =
                      IF pc[c] = "done"
                      THEN [name |-> name[c], args |-> args[c],
                            outcome |-> outcome[c], ret |-> ret[c]]
                      ELSE @]
        /\ partial' = [partial EXCEPT ![c] = g]
        /\ UNCHANGED failedBefore

\* The same wrapper call made while another context may be inside a call
\* of its own.
mp_call_par(c) ==
    \E n \in Names : \E argv \in SomeArgs(n) : \E g \in TypeValues(n) :
        /\ Enter(c, n, argv, g)
        /\ UNCHANGED <<prev, partial, failedBefore>>

\* The same wrapper call made by a caller that uses several contexts one
\* call at a time and notes whether a context has had a failed call.
mp_call_serial(c) ==
    /\ \A d \in Contexts : pc[d] \in {"idle", "done"}
    /\ \E n \in Names : \E argv \in SomeArgs(n) : \E g \in TypeValues(n) :
         Enter(c, n, argv, g)
    /\ failedBefore' = [failedBefore EXCEPT ![c] =
                          @ \/ (pc[c] = "done" /\ outcome[c].kind = "raise")]
    /\ UNCHANGED <<prev, partial>>

\* The library call is made.
Invoke(c) ==
    /\ libCall' = [libCall EXCEPT ![c] = call(name[c], c, args[c])]
    /\ ncalls' = [ncalls EXCEPT ![c] = @ + 1]
    /\ inRegion' = [inRegion EXCEPT ![c] = Top(errStack[c]) = "mp"]

\* fz_try body, normal completion: ret = call.
CallReturns(c) ==
    /\ pc[c] = "try"
    /\ \E v \in LibReturns(name[c]) :
         /\ outcome' = [outcome EXCEPT ![c] = Returned(v)]
         /\ ret' = [ret EXCEPT ![c] = TryAssign(@, v)]
    /\ Invoke(c)
    /\ pc' = [pc EXCEPT ![c] = "catch"]
    /\ UNCHANGED <<name, args, caught, errStack, partial, depth0, prev,
                   failedBefore>>

\* fz_try body, the call raises: MuPDF jumps to the innermost open region
\* of ctx.  That is this wrapper's region if the wrapper opened one;
\* otherwise the exception leaves the wrapper.
CallRaises(c) ==
    /\ pc[c] = "try"
    /\ outcome' = [outcome EXCEPT ![c] = Raised]
    /\ Invoke(c)
    /\ IF Top(errStack[c]) = "mp"
       THEN /\ pc' = [pc EXCEPT ![c] = "catch"]
            /\ caught' = [caught EXCEPT ![c] = TRUE]
       ELSE /\ pc' = [pc EXCEPT ![c] = "escaped"]
            /\ UNCHANGED caught
    /\ UNCHANGED <<name, args, ret, errStack, partial, depth0, prev,
                   failedBefore>>

\* fz_catch (ctx) { ret = failure_val; }  return ret;
CatchReturn(c) ==
    /\ pc[c] = "catch"
    /\ ret' = [ret EXCEPT ![c] =
                 IF DoCatch(c) THEN CatchAssign(name[c], @) ELSE @]
    /\ errStack' = [errStack EXCEPT ![c] = PopTry(@)]
    /\ caught' = [caught EXCEPT ![c] = FALSE]
    /\ pc' = [pc EXCEPT ![c] = "done"]
    /\ UNCHANGED <<name, args, outcome, libCall, ncalls, inRegion, partial,
                   depth0, prev, failedBefore>>

Next ==
    \E c \in MainContexts :
        \/ mp_call(c)
        \/ CallReturns(c)
        \/ CallRaises(c)
        \/ CatchReturn(c)

Spec == Init /\ [][Next]_vars

NextPar ==
    \E c \in Contexts :
        \/ mp_call_par(c)
        \/ CallReturns(c)
        \/ CallRaises(c)
        \/ CatchReturn(c)

SpecPar == InitAll /\ [][NextPar]_vars

NextSerial ==
    \E c \in Contexts :
        \/ mp_call_serial(c)
        \/ CallReturns(c)
        \/ CallRaises(c)
        \/ CatchReturn(c)

SpecSerial == InitAll /\ [][NextSerial]_vars

\* ------------------------------------------------------------ properties
Done(c) == pc[c] = "done"

\* The failure value the interface documents for each wrapper, written out
\* independently of the macro arguments.
DocSentinel(n) == IF n = "count_pages" THEN -1 ELSE 0

\* What a wrapper call gives when it runs on its own.
Alone(n, o) == IF o.kind = "raise" THEN DocSentinel(n) ELSE o.val

\* The previous call on c was a successful open whose handle is the
\* document argument of the current call.
FromSuccessfulOpen(c) ==
    /\ prev[c].name \in {"open_document", "open_document_with_stream"}
    /\ prev[c].outcome.kind = "return"
    /\ prev[c].ret # NULL
    /\ args[c][1] = prev[c].ret

\* C1: when the library call completes normally with value v, the wrapper
\* returns exactly v.
C1_ReturnsLibraryValue ==
    \A c \in Contexts :
        (Done(c) /\ outcome[c].kind = "return") => ret[c] = outcome[c].val

C1_Witness ==
    \E c \in Contexts :
        /\ Done(c)
        /\ outcome[c].kind = "return"
        /\ partial[c] # outcome[c].val
        /\ ret[c] = outcome[c].val

\* C2: when the library call raises, the wrapper returns the designated
\* sentinel whatever ret held before: NULL for the five pointer wrappers,
\* exactly -1 for count_pages.
C2_SentinelOnRaise ==
    \A c \in Contexts :
        (Done(c) /\ outcome[c].kind = "raise") =>
            ret[c] = (IF name[c] = "count_pages" THEN -1 ELSE NULL)

C2_Witness ==
    \E c \in Contexts :
        /\ Done(c)
        /\ outcome[c].kind = "raise"
        /\ name[c] = "count_pages"
        /\ partial[c] = 1
        /\ ret[c] = -1

\* C3: no exception raised by the library leaves a wrapper: a raise is
\* always taken by the wrapper's own region, and the call goes on to an
\* ordinary return.
C3_NoEscape ==
    \A c \in Contexts :
        /\ pc[c] # "escaped"
        /\ (pc[c] = "catch" /\ outcome[c].kind = "raise") =>
               (caught[c] /\ Top(errStack[c]) = "mp")

C3_Witness ==
    \E c \in Contexts :
        /\ Done(c)
        /\ outcome[c].kind = "raise"
        /\ ncalls[c] = 1
        /\ prev[c].outcome.kind = "raise"

\* C4 as stated: a call whose library call completed normally never
\* returns the wrapper's sentinel.
C4_SentinelNeverOnSuccess ==
    \A c \in Contexts :
        (Done(c) /\ outcome[c].kind = "return") =>
            ret[c] # DocSentinel(name[c])

\* C4 amended: on a call whose library call completed normally, the wrapper
\* returns its sentinel exactly when the library's own value is that
\* sentinel (fz_load_outline returning NULL for a document without an
\* outline); the wrapper itself never substitutes the sentinel on success.
C4_SentinelOnSuccessOnlyFromLibrary ==
    \A c \in Contexts :
        (Done(c) /\ outcome[c].kind = "return") =>
            (ret[c] = DocSentinel(name[c])
                <=> outcome[c].val = DocSentinel(name[c]))

C4_Witness ==
    \E c \in Contexts :
        /\ Done(c)
        /\ name[c] = "load_outline"
        /\ outcome[c] = Returned(NULL)
        /\ ret[c] = NULL

\* C5: the layer keeps nothing between calls: two completed calls of the
\* same wrapper with the same library outcome give the same result, however
\* the earlier calls on their contexts went.
C5_ResultIndependentOfHistory ==
    \A c, d \in Contexts :
        (/\ Done(c) /\ Done(d)
         /\ name[c] = name[d]
         /\ outcome[c] = outcome[d]) => ret[c] = ret[d]

C5_Witness ==
    \E c, d \in Contexts :
        /\ c # d
        /\ Done(c) /\ Done(d)
        /\ name[c] = name[d]
        /\ outcome[c] = outcome[d]
        /\ failedBefore[c] /\ ~failedBefore[d]

\* C6: the same wrapper called twice in succession with the same arguments,
\* the library answering both calls the same way, gives the same result
\* both times.
C6_Idempotent ==
    \A c \in Contexts :
        (/\ Done(c)
         /\ prev[c].name = name[c]
         /\ prev[c].args = args[c]
         /\ prev[c].outcome = outcome[c]) => prev[c].ret = ret[c]

C6_Witness ==
    \E c \in Contexts :
        /\ Done(c)
        /\ prev[c].name = name[c]
        /\ prev[c].args = args[c]
        /\ prev[c].outcome = outcome[c]
        /\ outcome[c].kind = "raise"
        /\ partial[c] # ret[c]

\* C7 as stated: count_pages on a handle from a successful open returns a
\* value >= 0, and count_pages on a null handle returns -1.
C7_CountPagesByHandle ==
    \A c \in Contexts :
        (Done(c) /\ name[c] = "count_pages") =>
            /\ FromSuccessfulOpen(c) => ret[c] >= 0
            /\ args[c][1] = NULL => ret[c] = -1

\* C7 amended: count_pages, on a handle from a successful open and on a
\* null handle alike, returns -1 when fz_count_pages raises and otherwise
\* the count fz_count_pages returned; the wrapper does not examine the
\* handle.
C7_CountPagesByOutcome ==
    \A c \in Contexts :
        (/\ Done(c) /\ name[c] = "count_pages"
         /\ (FromSuccessfulOpen(c) \/ args[c][1] = NULL)) =>
            /\ outcome[c].kind = "raise" => ret[c] = -1
            /\ outcome[c].kind = "return" => ret[c] = outcome[c].val

C7_Witness ==
    \E c \in Contexts :
        /\ Done(c) /\ name[c] = "count_pages"
        /\ args[c][1] = NULL
        /\ outcome[c] = Returned(0)
        /\ ret[c] = 0

\* C8: every wrapper call closes the region it opened, on both paths: one
\* region is open during the call, and on return the context's nesting
\* depth is what it was on entry.
C8_RegionBalanced ==
    \A c \in Contexts :
        /\ pc[c] \in {"try", "catch"} =>
               (Len(errStack[c]) = depth0[c] + 1 /\ Top(errStack[c]) = "mp")
        /\ Done(c) =>
               (/\ Len(errStack[c]) = depth0[c]
                /\ \A i \in 1 .. Len(errStack[c]) : errStack[c][i] = "caller")

C8_Witness ==
    \E c \in Contexts :
        /\ Done(c)
        /\ outcome[c].kind = "raise"
        /\ prev[c].outcome.kind = "return"
        /\ depth0[c] = 1
        /\ Len(errStack[c]) = 1

\* C9: a wrapper call makes its library call at most once, with ctx and the
\* caller's arguments unchanged and while the region is open; after a raise
\* there is no second call.
C9_OneCallArgsUnchanged ==
    \A c \in Contexts :
        /\ ncalls[c] <= 1
        /\ pc[c] = "try" => ncalls[c] = 0
        /\ pc[c] \in {"catch", "done"} =>
               /\ ncalls[c] = 1
               /\ libCall[c].fn = "fz_" \o name[c]
               /\ libCall[c].argv = <<c>> \o args[c]
               /\ inRegion[c]

C9_Witness ==
    \E c \in Contexts :
        /\ Done(c)
        /\ outcome[c].kind = "raise"
        /\ name[c] = "load_page"
        /\ args[c] = <<1, 1>>
        /\ libCall[c] = [fn |-> "fz_load_page", argv |-> <<c, 1, 1>>]
        /\ ncalls[c] = 1

\* C10: calls on distinct contexts do not disturb each other under any
\* interleaving: each call catches exactly its own exception, its result
\* is what it would be alone, and it leaves its own context's regions as
\* it found them.
C10_ContextsIsolated ==
    \A c \in Contexts :
        /\ pc[c] = "catch" =>
               /\ caught[c] <=> outcome[c].kind = "raise"
               /\ outcome[c].kind = "return" => ret[c] = outcome[c].val
        /\ Done(c) =>
               /\ ret[c] = Alone(name[c], outcome[c])
               /\ Len(errStack[c]) = depth0[c]

C10_Witness ==
    \E c, d \in Contexts :
        /\ c # d
        /\ Done(c)
        /\ outcome[c].kind = "return"
        /\ ret[c] # DocSentinel(name[c])
        /\ pc[d] = "catch"
        /\ caught[d]
====
